---- MODULE Spec2Model ----
(***************************************************************************)
(* Model of WPLSwordPuzzle..c: the frame loop of the slipring sword        *)
(* (sensor sampling, edge-triggered sound, brightness fade, sub-pixel      *)
(* light bar).  loop() is followed statement group by statement group;    *)
(* pc is the position inside loop().                                       *)
(***************************************************************************)
EXTENDS Integers, Sequences, FiniteSets, TLC

VARIABLES
    pos16,          \* int pos16          (line 38)
    hue,            \* int hue            (line 40)
    brightness,     \* int brightness     (line 41)
    length,         \* int length         (line 42)
    wasOverSensor,  \* bool wasOverSensor (line 45)
    leds,           \* CRGB leds[NUM_LEDS] (line 31)
    isOverSensor,   \* local of loop()    (line 110)
    scale,          \* FastLED's global brightness scalar (uint8_t)
    mp3Calls,       \* number of mp3.playTrack calls made so far
    mp3Track,       \* track of the last playTrack call, 0 = none yet
    mp3Ok,          \* what the playTrack call of the current contact returned
                    \* (discarded by loop()); TRUE while no sensor is asserted
    pc,             \* position inside loop()
    pins,           \* sensors reading LOW (input of the sampler specification)
    \* history of the run, not read by the program
    prevActive,     \* was the previous frame's sample active
    edges,          \* number of false->true transitions of the sample so far
    idleRun,        \* number of consecutive idle frames up to now
    lit,            \* has there been an active frame
    startPos16,     \* pos16 at the start of the current frame
    startGlow,      \* was brightness above 0 at the start of the current frame
    selected,       \* highest asserted sensor of the current frame, -1 = none
    targetChanged,  \* does selected differ from the previous frame's
    frameCalls      \* number of playTrack calls made in the current frame

vars == <<pos16, hue, brightness, length, wasOverSensor, leds, isOverSensor,
          scale, mp3Calls, mp3Track, mp3Ok, pc, pins,
          prevActive, edges, idleRun, lit, startPos16, startGlow,
          selected, targetChanged, frameCalls>>

hist == <<prevActive, edges, idleRun, lit, startPos16, startGlow,
          selected, targetChanged>>

----------------------------------------------------------------------------
\* Bounds of the model: the history counters saturate at these values.
MaxEdges == 2
MaxIdleRun == 32

\* Program constants.
NUM_LEDS == 12
numSensors == 6
MAX_BRIGHTNESS == 255
CUE_TRACK == 1
delta16 == 1
SetupBrightness == 128

Sensors == 0 .. (numSensors - 1)
\* Variant: the last target's bar is as long as the strip.
lengthsTooLong == [i \in Sensors |-> <<2, 3, 4, 5, 6, 12>>[i + 1]]
hues == [i \in Sensors |-> <<0, 24, 50, 90, 120, 160>>[i + 1]]
lengths == [i \in Sensors |-> <<2, 3, 4, 5, 6, 7>>[i + 1]]

Pixels == 0 .. (NUM_LEDS - 1)
StripLen16 == NUM_LEDS * 16

Min(a, b) == IF a < b THEN a ELSE b

SetMax(S) == CHOOSE m \in S : \A x \in S : x <= m

----------------------------------------------------------------------------
\* A pixel is the list of CHSV terms added to it since it was last cleared;
\* the HSV->RGB conversion of the LED library is left uninterpreted.
Black == << >>
CHSV(h, s, v) == <<h, s, v>>
BlackBuffer == [p \in Pixels |-> Black]

\* memset8(leds, 0, NUM_LEDS * sizeof(CRGB))
memset8(buf) == [p \in DOMAIN buf |-> Black]

\* uint8_t conversion of the int handed to FastLED.setBrightness
ToUint8(x) == x % 256

----------------------------------------------------------------------------
\* drawLightbar (lines 72-106)

\* lines 90-99: brightness of slot n of the bar
SlotBright(n, len, first, last) ==
    IF n = 0 THEN first
    ELSE IF n = len THEN last
    ELSE 255

\* Variant: the cursor wraps one pixel early.
NextPixelEarlyWrap(i) == IF i + 1 = NUM_LEDS - 1 THEN 0 ELSE i + 1

\* lines 102-104: i++; if(i == NUM_LEDS) i=0;
NextPixel(i) == IF i + 1 = NUM_LEDS THEN 0 ELSE i + 1

\* lines 89-105: the for loop, from slot n with pixel cursor i
RECURSIVE DrawLoop(_, _, _, _, _, _, _)
DrawLoop(buf, i, n, len, h, first, last) ==
    IF n <= len
    THEN DrawLoop([buf EXCEPT ![i] = Append(@, CHSV(h, 255, SlotBright(n, len, first, last)))],
                  NextPixel(i), n + 1, len, h, first, last)
    ELSE buf

\* line 80
FirstPixelBrightness(frac) == 255 - (frac * 16)

\* Variant: the last pixel repeats the first pixel's brightness.
LastPixelSameAsFirst(first) == first

\* line 83
LastPixelBrightness(first) == 255 - first

drawLightbar(buf, p16, len, h) ==
    LET i == p16 \div 16
        frac == p16 % 16          \* pos16 & 0x0F, pos16 >= 0
        firstpixelbrightness == FirstPixelBrightness(frac)
        lastpixelbrightness == LastPixelBrightness(firstpixelbrightness)
    IN  DrawLoop(buf, i, 0, len, h, firstpixelbrightness, lastpixelbrightness)

----------------------------------------------------------------------------
\* Variant: the loop stops at the first asserted sensor (lowest index wins).
RECURSIVE SampleLoopFirstWins(_, _, _)
SampleLoopFirstWins(i, S, st) ==
    IF i < numSensors
    THEN IF i \in S THEN <<lengths[i], hues[i], TRUE>>
         ELSE SampleLoopFirstWins(i + 1, S, st)
    ELSE st

\* Variant: hue is assigned only at the first asserted sensor, length at each.
RECURSIVE SampleLoopMixed(_, _, _)
SampleLoopMixed(i, S, st) ==
    IF i < numSensors
    THEN SampleLoopMixed(i + 1, S,
             IF i \in S
             THEN <<lengths[i], IF st[3] THEN st[2] ELSE hues[i], TRUE>>
             ELSE st)
    ELSE st

\* Variant: with no sensor asserted the bar falls back to the power-on values.
RECURSIVE SampleLoopResetIdle(_, _, _)
SampleLoopResetIdle(i, S, st) ==
    IF i < numSensors
    THEN SampleLoopResetIdle(i + 1, S,
             IF i \in S THEN <<lengths[i], hues[i], TRUE>>
             ELSE IF st[3] THEN st ELSE <<1, 20, FALSE>>)
    ELSE st

\* loop(), lines 110-118: the sampling loop over the sensors in index order.
\* S is the set of sensors whose pin reads LOW; st is <<length, hue, isOverSensor>>.
RECURSIVE SampleLoop(_, _, _)
SampleLoop(i, S, st) ==
    IF i < numSensors
    THEN SampleLoop(i + 1, S,
                    IF i \in S THEN <<lengths[i], hues[i], TRUE>> ELSE st)
    ELSE st

\* line 135: brightness *= 0.8f, i.e. (int)((float)brightness * 0.8f).
\* 0.8f is the float 13421773 / 2^24 = 4/5 + 1/(5 * 2^24), so with
\* q = (4b) div 5 and r = (4b) mod 5 the exact product is
\* q + (r * 2^24 + b) / (5 * 2^24).  The product is rounded to a float
\* (24-bit significand, nearest) and then truncated to int.
Pow2(k) == 2 ^ k

RECURSIVE Log2(_)
Log2(q) == IF q <= 1 THEN 0 ELSE 1 + Log2(q \div 2)

\* Variant: the product is rounded to the nearest int instead of truncated.
MulFadeRounded(b) == (8 * b + 5) \div 10

MulFade(b) ==
    LET q == (4 * b) \div 5
        r == (4 * b) % 5
        num == r * Pow2(24) + b                 \* fraction = num / (5 * 2^24)
    IN  IF q = 0 THEN 0                         \* product < 1 truncates to 0
        ELSE LET k == 23 - Log2(q)              \* fraction bits kept by the float
                 unit == 5 * Pow2(24 - k)       \* one unit in the last place, over 5 * 2^24
                 rounded == (2 * num + unit) \div (2 * unit)
             IN  IF rounded >= Pow2(k) THEN q + 1 ELSE q

\* Variant: a linear fade with no clamp at 0.
FadeLinearNoClamp(b) == b - 51

\* Variant: the faded value is rounded up, so 1 fades to 1.
FadeRoundedUp(b) == (4 * b + 4) \div 5

\* lines 135-136
Fade(b) ==
    LET f == MulFade(b)
    IN  IF f < 0 THEN 0 ELSE f

----------------------------------------------------------------------------
\* Variant: brightness starts at the value setup() hands to the driver.
InitLit ==
    /\ pos16 = 0
    /\ hue = 20
    /\ brightness = SetupBrightness
    /\ length = 1
    /\ wasOverSensor = FALSE
    /\ leds = BlackBuffer
    /\ isOverSensor = FALSE
    /\ scale = SetupBrightness
    /\ mp3Calls = 0
    /\ mp3Track = 0
    /\ mp3Ok = TRUE
    /\ pc = "sample"
    /\ pins = {}
    /\ prevActive = FALSE
    /\ edges = 0
    /\ idleRun = 0
    /\ lit = FALSE
    /\ startPos16 = 0
    /\ startGlow = TRUE
    /\ selected = -1
    /\ targetChanged = FALSE
    /\ frameCalls = 0

\* State after the globals' initialisers (lines 31-45) and setup() (lines 47-68).
Init ==
    /\ pos16 = 0
    /\ hue = 20
    /\ brightness = 0
    /\ length = 1
    /\ wasOverSensor = FALSE
    /\ leds = BlackBuffer
    /\ isOverSensor = FALSE
    /\ scale = SetupBrightness
    /\ mp3Calls = 0
    /\ mp3Track = 0
    /\ mp3Ok = TRUE
    /\ pc = "sample"
    /\ pins = {}
    /\ prevActive = FALSE
    /\ edges = 0
    /\ idleRun = 0
    /\ lit = FALSE
    /\ startPos16 = 0
    /\ startGlow = FALSE
    /\ selected = -1
    /\ targetChanged = FALSE
    /\ frameCalls = 0

\* lines 110-118 with the pins in S reading LOW
SampleOn(S) ==
    /\ pc = "sample"
    /\ LET st == SampleLoop(0, S, <<length, hue, FALSE>>)
       IN  /\ length' = st[1]
           /\ hue' = st[2]
           /\ isOverSensor' = st[3]
    /\ pc' = "update"
    /\ startPos16' = pos16
    /\ startGlow' = (brightness > 0)
    /\ selected' = (IF S = {} THEN -1 ELSE SetMax(S))
    /\ targetChanged' = (selected' # selected)
    /\ mp3Ok' = (IF S = {} THEN TRUE ELSE mp3Ok)
    /\ frameCalls' = 0
    /\ edges' = IF S # {} /\ ~prevActive THEN Min(edges + 1, MaxEdges) ELSE edges
    /\ idleRun' = IF S # {} THEN 0 ELSE Min(idleRun + 1, MaxIdleRun)
    /\ lit' = (lit \/ S # {})
    /\ UNCHANGED <<pos16, brightness, wasOverSensor, leds, scale, mp3Calls,
                   mp3Track, pins, prevActive>>

\* One frame's reading of the six sensor pins: any subset may read LOW.
Sample == \E S \in SUBSET Sensors : SampleOn(S)

\* Variant: level-triggered, the previous frame's flag is ignored.
IsLevel(over, was) == over

\* Variant: the negation of the previous frame's flag is missing.
IsRisingEdgeInverted(over, was) == over /\ was

\* lines 123-128: the rising-edge branch
IsRisingEdge(over, was) == over /\ ~was

\* Variant: the position is advanced inside the state update, before the bar is drawn.
UpdateAdvancing ==
    /\ pc = "update"
    /\ IF isOverSensor
       THEN /\ IF IsRisingEdge(isOverSensor, wasOverSensor)
               THEN /\ pos16' = delta16
                    /\ mp3Calls' = Min(mp3Calls + 1, MaxEdges)
                    /\ mp3Track' = CUE_TRACK
                    /\ frameCalls' = frameCalls + 1
                    /\ mp3Ok' \in BOOLEAN      \* the call's result, not looked at
               ELSE /\ pos16' = (pos16 + delta16) % (NUM_LEDS * 16)
                    /\ UNCHANGED <<mp3Calls, mp3Track, mp3Ok, frameCalls>>
            /\ brightness' = MAX_BRIGHTNESS
       ELSE /\ brightness' = Fade(brightness)
            /\ pos16' = (pos16 + delta16) % (NUM_LEDS * 16)
            /\ UNCHANGED <<mp3Calls, mp3Track, mp3Ok, frameCalls>>
    /\ scale' = ToUint8(brightness')
    /\ wasOverSensor' = isOverSensor
    /\ pc' = "render"
    /\ UNCHANGED <<hue, length, leds, isOverSensor, pins>>
    /\ UNCHANGED hist

\* Variant: a failed playTrack call is repeated in the following frames.
UpdateRetry ==
    /\ pc = "update"
    /\ IF isOverSensor
       THEN /\ IF IsRisingEdge(isOverSensor, wasOverSensor) \/ ~mp3Ok
               THEN /\ pos16' = (IF wasOverSensor THEN pos16 ELSE 0)
                    /\ mp3Calls' = Min(mp3Calls + 1, MaxEdges)
                    /\ mp3Track' = CUE_TRACK
                    /\ frameCalls' = frameCalls + 1
                    /\ mp3Ok' \in BOOLEAN      \* the call's result, not looked at
               ELSE UNCHANGED <<pos16, mp3Calls, mp3Track, mp3Ok, frameCalls>>
            /\ brightness' = MAX_BRIGHTNESS
       ELSE /\ brightness' = Fade(brightness)
            /\ UNCHANGED <<pos16, mp3Calls, mp3Track, mp3Ok, frameCalls>>
    /\ scale' = ToUint8(brightness')
    /\ wasOverSensor' = isOverSensor
    /\ pc' = "render"
    /\ UNCHANGED <<hue, length, leds, isOverSensor, pins>>
    /\ UNCHANGED hist

\* Variant: the position is reset only when the bar has faded out.
UpdateResetWhenDark ==
    /\ pc = "update"
    /\ IF isOverSensor
       THEN /\ IF IsRisingEdge(isOverSensor, wasOverSensor)
               THEN /\ pos16' = (IF brightness = 0 THEN 0 ELSE pos16)
                    /\ mp3Calls' = Min(mp3Calls + 1, MaxEdges)
                    /\ mp3Track' = CUE_TRACK
                    /\ frameCalls' = frameCalls + 1
                    /\ mp3Ok' \in BOOLEAN      \* the call's result, not looked at
               ELSE UNCHANGED <<pos16, mp3Calls, mp3Track, mp3Ok, frameCalls>>
            /\ brightness' = MAX_BRIGHTNESS
       ELSE /\ brightness' = Fade(brightness)
            /\ UNCHANGED <<pos16, mp3Calls, mp3Track, mp3Ok, frameCalls>>
    /\ scale' = ToUint8(brightness')
    /\ wasOverSensor' = isOverSensor
    /\ pc' = "render"
    /\ UNCHANGED <<hue, length, leds, isOverSensor, pins>>
    /\ UNCHANGED hist

\* lines 121-141
Update ==
    /\ pc = "update"
    /\ IF isOverSensor
       THEN /\ IF IsRisingEdge(isOverSensor, wasOverSensor)
               THEN /\ pos16' = 0
                    /\ mp3Calls' = Min(mp3Calls + 1, MaxEdges)
                    /\ mp3Track' = CUE_TRACK
                    /\ frameCalls' = frameCalls + 1
                    /\ mp3Ok' \in BOOLEAN      \* the call's result, not looked at
               ELSE UNCHANGED <<pos16, mp3Calls, mp3Track, mp3Ok, frameCalls>>
            /\ brightness' = MAX_BRIGHTNESS
       ELSE /\ brightness' = Fade(brightness)
            /\ UNCHANGED <<pos16, mp3Calls, mp3Track, mp3Ok, frameCalls>>
    /\ scale' = ToUint8(brightness')
    /\ wasOverSensor' = isOverSensor
    /\ pc' = "render"
    /\ UNCHANGED <<hue, length, leds, isOverSensor, pins>>
    /\ UNCHANGED hist

\* Variant: the buffer is not cleared before the bar is drawn.
RenderNoClear ==
    /\ pc = "render"
    /\ leds' = drawLightbar(leds, pos16, length, hue)
    /\ pc' = "advance"
    /\ UNCHANGED <<pos16, hue, brightness, length, wasOverSensor, isOverSensor,
                   scale, mp3Calls, mp3Track, mp3Ok, frameCalls, pins>>
    /\ UNCHANGED hist

\* Variant: the bar is drawn at the current brightness instead of nominal.
RenderDimmed ==
    /\ pc = "render"
    /\ LET drawn == drawLightbar(memset8(leds), pos16, length, hue)
       IN  leds' = [p \in Pixels |->
                      [k \in DOMAIN drawn[p] |->
                         CHSV(drawn[p][k][1], drawn[p][k][2],
                              (drawn[p][k][3] * brightness) \div 255)]]
    /\ pc' = "advance"
    /\ UNCHANGED <<pos16, hue, brightness, length, wasOverSensor, isOverSensor,
                   scale, mp3Calls, mp3Track, mp3Ok, frameCalls, pins>>
    /\ UNCHANGED hist

\* lines 144-147
Render ==
    /\ pc = "render"
    /\ leds' = drawLightbar(memset8(leds), pos16, length, hue)
    /\ pc' = "advance"
    /\ UNCHANGED <<pos16, hue, brightness, length, wasOverSensor, isOverSensor,
                   scale, mp3Calls, mp3Track, mp3Ok, frameCalls, pins>>
    /\ UNCHANGED hist

\* Variant: the wrap test is > instead of >=.
WrapOffByOne(p) == IF p > NUM_LEDS * 16 THEN p - (NUM_LEDS * 16) ELSE p

\* lines 154-156
Wrap(p) == IF p >= NUM_LEDS * 16 THEN p - (NUM_LEDS * 16) ELSE p

\* Variant: the position is not reduced after the advance.
AdvanceNoWrap ==
    /\ pc = "advance"
    /\ pos16' = pos16 + delta16
    /\ pc' = "show"
    /\ UNCHANGED <<hue, brightness, length, wasOverSensor, leds, isOverSensor,
                   scale, mp3Calls, mp3Track, mp3Ok, frameCalls, pins>>
    /\ UNCHANGED hist

\* lines 150-156
Advance ==
    /\ pc = "advance"
    /\ pos16' = Wrap(pos16 + delta16)
    /\ pc' = "show"
    /\ UNCHANGED <<hue, brightness, length, wasOverSensor, leds, isOverSensor,
                   scale, mp3Calls, mp3Track, mp3Ok, frameCalls, pins>>
    /\ UNCHANGED hist

\* line 159: FastLED.show() sends leds under scale; no program state changes
Show ==
    /\ pc = "show"
    /\ pc' = "delay"
    /\ UNCHANGED <<pos16, hue, brightness, length, wasOverSensor, leds,
                   isOverSensor, scale, mp3Calls, mp3Track, mp3Ok, frameCalls, pins>>
    /\ UNCHANGED hist

\* line 161 and the return of loop(): the frame ends
Delay ==
    /\ pc = "delay"
    /\ pc' = "sample"
    /\ prevActive' = isOverSensor
    /\ UNCHANGED <<pos16, hue, brightness, length, wasOverSensor, leds,
                   isOverSensor, scale, mp3Calls, mp3Track, mp3Ok, frameCalls, pins>>
    /\ UNCHANGED <<edges, idleRun, lit, startPos16, startGlow, selected, targetChanged>>

Next == Sample \/ Update \/ Render \/ Advance \/ Show \/ Delay

Spec == Init /\ [][Next]_vars

----------------------------------------------------------------------------
\* The renderer on its own: the frame's clear-and-draw step (lines 144-147)
\* applied to every position, every bar length and hue the program can hold,
\* over a clean and over a used buffer.
BarLengths == {1} \cup {lengths[i] : i \in Sensors}
BarHues == {20} \cup {hues[i] : i \in Sensors}
UsedBuffer == [p \in Pixels |-> <<CHSV(20, 255, 255)>>]

InitRender ==
    /\ pos16 \in 0 .. (StripLen16 - 1)
    /\ length \in BarLengths
    /\ hue \in BarHues
    /\ leds \in {BlackBuffer, UsedBuffer}
    /\ brightness = 0
    /\ wasOverSensor = FALSE
    /\ isOverSensor = FALSE
    /\ scale = SetupBrightness
    /\ mp3Calls = 0
    /\ mp3Track = 0
    /\ mp3Ok = TRUE
    /\ pc = "render"
    /\ pins = {}
    /\ prevActive = FALSE
    /\ edges = 0
    /\ idleRun = 0
    /\ lit = FALSE
    /\ startPos16 = pos16
    /\ startGlow = FALSE
    /\ selected = -1
    /\ targetChanged = FALSE
    /\ frameCalls = 0

NextRender == Render

RenderSpec == InitRender /\ [][NextRender]_vars

\* The sampler on its own: the sampling loop (lines 110-118) applied to every
\* subset of asserted pins, from every (length, hue) the program can hold.
TargetPairs == {<<1, 20>>} \cup {<<lengths[i], hues[i]>> : i \in Sensors}

InitSample ==
    /\ pins \in SUBSET Sensors
    /\ \E t \in TargetPairs : length = t[1] /\ hue = t[2]
    /\ pos16 = 0
    /\ brightness = 0
    /\ wasOverSensor = FALSE
    /\ leds = BlackBuffer
    /\ isOverSensor = FALSE
    /\ scale = SetupBrightness
    /\ mp3Calls = 0
    /\ mp3Track = 0
    /\ mp3Ok = TRUE
    /\ pc = "sample"
    /\ prevActive = FALSE
    /\ edges = 0
    /\ idleRun = 0
    /\ lit = FALSE
    /\ startPos16 = 0
    /\ startGlow = FALSE
    /\ selected = -1
    /\ targetChanged = FALSE
    /\ frameCalls = 0

SamplePins == SampleOn(pins)

NextSample == SamplePins

SampleSpec == InitSample /\ [][NextSample]_vars

----------------------------------------------------------------------------
\* Properties of the frame loop (specification Spec)

\* The sample of the current frame and of the previous one, from the history.
ActiveNow == lit /\ idleRun = 0
RisingNow == ActiveNow /\ ~prevActive

\* C1: outside the state update, the number of playTrack calls made so far
\* equals the number of false->true transitions of the sample so far (both
\* counted up to MaxEdges), and every call asked for track 1.
C1_EdgeTriggeredAudio ==
    pc # "update" =>
        /\ mp3Calls = edges
        /\ mp3Track = (IF edges > 0 THEN CUE_TRACK ELSE 0)

\* two rising edges have been played, the second one held for over a pixel
C1_Witness ==
    /\ pc = "sample"
    /\ edges = 2
    /\ mp3Calls = 2
    /\ wasOverSensor
    /\ pos16 > 16

\* C2: at the end of every frame 0 <= pos16 < NUM_LEDS * 16.
C2_PositionInRange ==
    pc \in {"show", "delay", "sample"} => (0 <= pos16 /\ pos16 < NUM_LEDS * 16)

\* a held bar has just wrapped from 191 to 0
C2_Witness ==
    /\ pc = "delay"
    /\ pos16 = 0
    /\ startPos16 = StripLen16 - 1
    /\ brightness = MAX_BRIGHTNESS

\* C3: brightness is in 0 .. 255 at all times, and once the frame has called
\* setBrightness the driver's scalar equals brightness, i.e. the int handed
\* over fits the driver's uint8_t.
C3_BrightnessInRange ==
    /\ 0 <= brightness /\ brightness <= MAX_BRIGHTNESS
    /\ pc \in {"render", "advance", "show", "delay"} => scale = brightness

\* a full fade after an active frame has ended at 0
C3_Witness ==
    /\ pc = "delay"
    /\ lit
    /\ idleRun > 0
    /\ brightness = 0
    /\ scale = 0

\* C4 as stated: the end-of-frame position is 0 on a rising-edge frame and
\* (pos16 + 1) mod (NUM_LEDS * 16) on every other frame.
C4_AsStated ==
    pc = "delay" =>
        pos16 = (IF RisingNow THEN 0 ELSE (startPos16 + 1) % StripLen16)

\* C4 amended: the end-of-frame position is 1 on a rising-edge frame (reset
\* to 0, drawn, then advanced) and (pos16 + 1) mod (NUM_LEDS * 16) otherwise.
C4_MonotoneAdvance ==
    pc = "delay" =>
        pos16 = (IF RisingNow THEN 1 ELSE (startPos16 + 1) % StripLen16)

\* a rising edge has reset a bar that was past pixel 0
C4_Witness ==
    /\ pc = "delay"
    /\ RisingNow
    /\ startPos16 > 16
    /\ pos16 = 1

\* C5 as stated: when the buffer is about to be sent, it is the renderer's
\* output for the pos16, length and hue of that moment, under brightness.
C5_AsStated ==
    pc = "show" =>
        /\ leds = drawLightbar(BlackBuffer, pos16, length, hue)
        /\ scale = brightness

\* C5 amended: when the buffer is about to be sent, it is the renderer's
\* output for the position one step before the current pos16 (the value the
\* bar was drawn at) and the current length and hue, under brightness.
C5_ShippedIsRendered ==
    pc = "show" =>
        /\ leds = drawLightbar(BlackBuffer,
                               (pos16 + StripLen16 - delta16) % StripLen16,
                               length, hue)
        /\ scale = brightness

\* a bar drawn at 191 is about to be sent after pos16 has wrapped to 0
C5_Witness ==
    /\ pc = "show"
    /\ pos16 = 0
    /\ brightness = MAX_BRIGHTNESS
    /\ leds[NUM_LEDS - 1] # Black
    /\ leds[1] # Black

\* C6: in an idle frame brightness does not rise, falls while it is above 0
\* (so it reaches 0 in finitely many frames), stays 0 once 0, and is 0 from
\* the 30th consecutive idle frame on.
C6_FadeMonotone ==
    [][(pc = "update" /\ ~isOverSensor) =>
          /\ brightness' <= brightness
          /\ brightness > 0 => brightness' < brightness
          /\ brightness = 0 => brightness' = 0
          /\ idleRun >= 30 => brightness' = 0]_vars

\* the fade from 255 has just reached 0, in the 21st idle frame
C6_Witness ==
    /\ pc = "render"
    /\ ~isOverSensor
    /\ lit
    /\ idleRun = 21
    /\ brightness = 0

\* floor(255 * 0.8^n) in exact arithmetic: 255 * 4^n in base-5 digits (least
\* significant first), with the n lowest digits dropped.
RECURSIVE Times4(_, _)
Times4(ds, carry) ==
    IF ds = << >>
    THEN IF carry = 0 THEN << >> ELSE <<carry % 5>> \o Times4(<< >>, carry \div 5)
    ELSE LET v == 4 * Head(ds) + carry
         IN  <<v % 5>> \o Times4(Tail(ds), v \div 5)

RECURSIVE Base5Value(_)
Base5Value(ds) == IF ds = << >> THEN 0 ELSE Head(ds) + 5 * Base5Value(Tail(ds))

RECURSIVE Digits255Times4Pow(_)
Digits255Times4Pow(n) ==
    IF n = 0 THEN <<0, 1, 0, 2>> ELSE Times4(Digits255Times4Pow(n - 1), 0)

ClosedFormFade(n) ==
    LET ds == Digits255Times4Pow(n)
    IN  IF Len(ds) <= n THEN 0 ELSE Base5Value(SubSeq(ds, n + 1, Len(ds)))

ClosedFormTable == [n \in 0 .. (MaxIdleRun + 1) |-> ClosedFormFade(n)]

\* The values of n consecutive updates b := trunc(b * 0.8) from 255.
IteratedFadeTable ==
    <<255, 204, 163, 130, 104, 83, 66, 52, 41, 32, 25, 20, 16, 12, 9, 7, 5, 4,
      3, 2, 1, 0>>
IteratedFade(n) ==
    IF n + 1 <= Len(IteratedFadeTable) THEN IteratedFadeTable[n + 1] ELSE 0

\* C7 as stated: n idle frames after an active frame, brightness is
\* floor(255 * 0.8^n).  (Once idleRun has saturated, n >= MaxIdleRun.)
C7_AsStated ==
    (pc = "delay" /\ lit) => brightness = ClosedFormTable[idleRun]

\* C7 amended: n idle frames after an active frame, brightness is the n-th
\* iterate of b := trunc(b * 0.8) from 255 (255, 204, 163, 130, 104, 83, 66,
\* 52, 41, ... , 1, 0 from n = 21 on); it equals floor(255 * 0.8^n) for n <= 6
\* and n >= 25, and is 1 or 2 below it for 7 <= n <= 24.
C7_IteratedFade ==
    (pc = "delay" /\ lit) =>
        /\ brightness = IteratedFade(idleRun)
        /\ brightness <= ClosedFormTable[idleRun]
        /\ ClosedFormTable[idleRun] - brightness <= 2
        /\ (idleRun <= 6 \/ idleRun >= 25) => brightness = ClosedFormTable[idleRun]
        /\ (7 <= idleRun /\ idleRun <= 24) => brightness < ClosedFormTable[idleRun]

\* seven idle frames after an active one: 52, where floor(255 * 0.8^7) = 53
C7_Witness ==
    /\ pc = "delay"
    /\ lit
    /\ idleRun = 7
    /\ brightness = 52
    /\ ClosedFormTable[7] = 53

----------------------------------------------------------------------------
\* Properties of the renderer (specification RenderSpec)

\* The v components of the CHSV terms added to one pixel, summed.
RECURSIVE PixelLight(_)
PixelLight(px) == IF px = << >> THEN 0 ELSE Head(px)[3] + PixelLight(Tail(px))

\* The light of the pixels 0 .. p - 1 of a buffer and the number of terms.
RECURSIVE BufferLight(_, _)
BufferLight(buf, p) ==
    IF p = 0 THEN 0 ELSE PixelLight(buf[p - 1]) + BufferLight(buf, p - 1)

RECURSIVE BufferTerms(_, _)
BufferTerms(buf, p) ==
    IF p = 0 THEN 0 ELSE Len(buf[p - 1]) + BufferTerms(buf, p - 1)

\* C8: the bar drawn on a cleared buffer has length + 1 slots whose
\* brightness values sum to 255 * length, at every position and length.
C8_BrightnessConservation ==
    pc = "advance" =>
        /\ BufferTerms(leds, NUM_LEDS) = length + 1
        /\ BufferLight(leds, NUM_LEDS) = 255 * length

\* the longest bar, straddling the end of the strip at the last sub-position
C8_Witness ==
    /\ pc = "advance"
    /\ pos16 = StripLen16 - 1
    /\ length = 7
    /\ BufferLight(leds, NUM_LEDS) = 1785

\* Slot of the bar that falls on pixel p when the head is on pixel base.
SlotOf(p, base) == (p + NUM_LEDS - base) % NUM_LEDS

\* What the claim says pixel p holds after the bar is drawn.
ExpectedPixel(p, p16, len, h) ==
    LET k == SlotOf(p, p16 \div 16)
        head == 255 - 16 * (p16 % 16)
    IN  IF k > len THEN Black
        ELSE IF k = 0 THEN <<CHSV(h, 255, head)>>
        ELSE IF k = len THEN <<CHSV(h, 255, 255 - head)>>
        ELSE <<CHSV(h, 255, 255)>>

\* C10: slot k = 0 .. length of the bar is on pixel (floor(pos16/16) + k) mod
\* NUM_LEDS with brightness head, 255 or tail, and every other pixel is black;
\* at pos16 = 191, length = 2 these are pixels 11, 0, 1 with 15, 255, 240.
C10_PaintedPixels ==
    pc = "advance" =>
        /\ \A p \in Pixels : leds[p] = ExpectedPixel(p, pos16, length, hue)
        /\ (pos16 = 191 /\ length = 2) =>
              /\ leds[11] = <<CHSV(hue, 255, 15)>>
              /\ leds[0] = <<CHSV(hue, 255, 255)>>
              /\ leds[1] = <<CHSV(hue, 255, 240)>>
              /\ \A p \in 2 .. 10 : leds[p] = Black

\* the bar of length 2 drawn at 191 over a used buffer
C10_Witness ==
    /\ pc = "advance"
    /\ pos16 = 191
    /\ length = 2
    /\ leds[11] = <<CHSV(hue, 255, 15)>>
    /\ leds[1] = <<CHSV(hue, 255, 240)>>
    /\ leds[5] = Black

----------------------------------------------------------------------------
\* Properties of the sampler (specification SampleSpec)

\* C9: after the sampling loop, a non-empty set of asserted sensors leaves
\* length and hue those of its highest index and isOverSensor true; the empty
\* set leaves isOverSensor false.
C9_HighestIndexWins ==
    pc = "update" =>
        IF pins # {}
        THEN /\ length = lengths[SetMax(pins)]
             /\ hue = hues[SetMax(pins)]
             /\ isOverSensor
        ELSE ~isOverSensor

\* sensors 1 and 4 asserted together: length 6, hue 120
C9_Witness ==
    /\ pc = "update"
    /\ pins = {1, 4}
    /\ length = 6
    /\ hue = 120
    /\ isOverSensor

----------------------------------------------------------------------------
\* Further properties of the frame loop (specification Spec)

\* The buffer the claims expect for a bar drawn at p16.
ExpectedBuffer(p16, len, h) == [p \in Pixels |-> ExpectedPixel(p, p16, len, h)]

\* The position the bar of the current frame was drawn at, once pos16 has
\* been advanced.
DrawnAt == (pos16 + StripLen16 - delta16) % StripLen16

\* The steps of a frame follow each other in this order.
StepOrder ==
    /\ pc = "sample" => pc' = "update"
    /\ pc = "update" => pc' = "render"
    /\ pc = "render" => pc' = "advance"
    /\ pc = "advance" => pc' = "show"
    /\ pc = "show" => pc' = "delay"
    /\ pc = "delay" => pc' = "sample"

\* C11 as stated: the steps are in order, the state update advances the
\* position before the bar is drawn, and on a rising edge playTrack has been
\* called when the bar is drawn and when it is sent.
C11_AsStated ==
    [][/\ StepOrder
       /\ pc = "update" =>
             /\ pos16' = (IF RisingNow THEN 1 ELSE (pos16 + 1) % StripLen16)
             /\ RisingNow => frameCalls' = 1
       /\ pc \in {"render", "advance", "show"} =>
             /\ pos16' = pos16
             /\ frameCalls' = frameCalls]_vars

\* C11 amended: the steps are in the order sample, state update, draw,
\* position advance, send, sleep; the state update leaves the position alone
\* (or resets it to 0 on a rising edge), the advance comes after the bar is
\* drawn and before it is sent, and on a rising edge playTrack has been called
\* when the bar is drawn and when it is sent.
C11_FrameOrder ==
    [][/\ StepOrder
       /\ pc = "update" =>
             /\ pos16' = (IF RisingNow THEN 0 ELSE pos16)
             /\ frameCalls' = (IF RisingNow THEN 1 ELSE 0)
             /\ leds' = leds
       /\ pc = "render" =>
             /\ pos16' = pos16
             /\ frameCalls' = frameCalls
             /\ leds' = ExpectedBuffer(pos16, length, hue)
       /\ pc = "advance" =>
             /\ pos16' = (pos16 + 1) % StripLen16
             /\ frameCalls' = frameCalls
             /\ leds' = leds
       /\ pc = "show" =>
             /\ pos16' = pos16
             /\ frameCalls' = frameCalls
             /\ leds' = leds]_vars

\* a rising-edge frame about to send: played once, drawn at 0, advanced to 1
C11_Witness ==
    /\ pc = "show"
    /\ RisingNow
    /\ frameCalls = 1
    /\ pos16 = 1
    /\ startPos16 > 16
    /\ leds[0] # Black

\* C12: when a rising-edge frame sends its buffer, the buffer is the bar of
\* the selected target s drawn at position 0 (head on pixel 0), length and hue
\* are lengths[s] and hues[s], the driver's scalar is 255 and exactly one
\* playTrack(1) call was made in the frame; sensor 3 gives length 5, hue 90.
C12_FirstContact ==
    (pc = "show" /\ RisingNow) =>
        /\ selected \in Sensors
        /\ length = lengths[selected]
        /\ hue = hues[selected]
        /\ leds = ExpectedBuffer(0, lengths[selected], hues[selected])
        /\ leds[0] = <<CHSV(hues[selected], 255, 255)>>
        /\ brightness = MAX_BRIGHTNESS
        /\ scale = MAX_BRIGHTNESS
        /\ frameCalls = 1
        /\ mp3Track = CUE_TRACK
        /\ selected = 3 => (length = 5 /\ hue = 90)

\* sensor 3 acquired after a pause, with the bar away from pixel 0 before
C12_Witness ==
    /\ pc = "show"
    /\ RisingNow
    /\ selected = 3
    /\ length = 5
    /\ hue = 90
    /\ startPos16 > 16
    /\ frameCalls = 1

\* A pixel whose CHSV terms all have v = 0 is black.
IsBlack(px) == \A k \in DOMAIN px : px[k][3] = 0

\* C13 as stated: while no sensor has ever been asserted, every frame sends a
\* buffer whose pixels are all black, with brightness 0 and no playTrack call.
C13_AsStated ==
    (pc = "show" /\ ~lit) =>
        /\ brightness = 0
        /\ \A p \in Pixels : IsBlack(leds[p])
        /\ mp3Calls = 0

\* C13 amended: while no sensor has ever been asserted, brightness and the
\* driver's scalar are 0 in every frame and no playTrack call is made; the
\* buffer sent is not black: it holds the power-on bar (length 1, hue 20) at
\* the frame's position, and only the scalar 0 keeps the strip dark.
C13_IdleStaysDark ==
    (pc = "show" /\ ~lit) =>
        /\ brightness = 0
        /\ scale = 0
        /\ mp3Calls = 0
        /\ frameCalls = 0
        /\ leds = ExpectedBuffer(DrawnAt, 1, 20)
        /\ \E p \in Pixels : ~IsBlack(leds[p])

\* idle since power-on for more than a pixel's worth of frames
C13_Witness ==
    /\ pc = "show"
    /\ ~lit
    /\ pos16 > 16
    /\ scale = 0
    /\ ~IsBlack(leds[1])

\* C14: the buffer sent is the same function of the position the bar was
\* drawn at, length and hue in every reachable frame, so frames that agree on
\* these three send the same buffer whatever brightness, wasOverSensor and
\* the earlier frames were; the head is at its nominal brightness
\* 255 - 16 * frac, not scaled by brightness.
C14_BufferDependsOnBarOnly ==
    pc = "show" =>
        /\ leds = ExpectedBuffer(DrawnAt, length, hue)
        /\ leds[DrawnAt \div 16] = <<CHSV(hue, 255, 255 - 16 * (DrawnAt % 16))>>

\* a faded frame still sends a bar at nominal brightness
C14_Witness ==
    /\ pc = "show"
    /\ lit
    /\ brightness = 52
    /\ ~wasOverSensor
    /\ length = 7
    /\ \E p \in Pixels : leds[p] = <<CHSV(hue, 255, 255)>>

\* C15: whatever playTrack returned, a frame makes one playTrack call if it
\* is a rising-edge frame and none otherwise (no retry while held, a new call
\* on the next rising edge), and a rising-edge frame ends with pos16 = 1,
\* the selected length and hue, brightness 255, wasOverSensor set and the
\* bar drawn at 0 in the buffer.
C15_AudioFailureSwallowed ==
    /\ pc \in {"render", "advance", "show", "delay"} =>
          frameCalls = (IF RisingNow THEN 1 ELSE 0)
    /\ (pc = "delay" /\ RisingNow) =>
          /\ pos16 = 1
          /\ length = lengths[selected]
          /\ hue = hues[selected]
          /\ brightness = MAX_BRIGHTNESS
          /\ wasOverSensor
          /\ leds = ExpectedBuffer(0, length, hue)

\* the sensor is still held well after a playTrack call that failed
C15_Witness ==
    /\ pc = "delay"
    /\ ~mp3Ok
    /\ ActiveNow
    /\ ~RisingNow
    /\ frameCalls = 0
    /\ pos16 > 16

\* C16 as stated: in every frame whose selected target differs from the
\* previous frame's, the bar is drawn at position 0.
C16_AsStated ==
    (pc = "advance" /\ selected # -1 /\ targetChanged) => pos16 = 0

\* C16 amended: the bar is drawn at position 0 in every frame that selects a
\* target after a frame that selected none; when the target changes between
\* two frames that both select one, the position is not reset.
C16_ResetOnlyAfterIdle ==
    (pc = "advance" /\ selected # -1) =>
        pos16 = (IF ~prevActive THEN 0 ELSE startPos16)

\* the target changes to 4 with no idle frame between
C16_Witness ==
    /\ pc = "advance"
    /\ prevActive
    /\ targetChanged
    /\ selected = 4
    /\ length = 6
    /\ pos16 = startPos16
    /\ pos16 > 16

\* C17 as stated: a rising edge that finds brightness still above 0 leaves
\* the position alone, and the position is reset only from brightness 0.
C17_AsStated ==
    (pc = "render" /\ RisingNow) =>
        pos16 = (IF startGlow THEN startPos16 ELSE 0)

\* C17 amended: every rising edge resets the position to 0, whatever
\* brightness is left of the fade; the position is left alone only in frames
\* that are not rising edges.
C17_ResetOnEveryRisingEdge ==
    pc = "render" => pos16 = (IF RisingNow THEN 0 ELSE startPos16)

\* a sensor re-asserted while brightness was still above 0, bar reset
C17_Witness ==
    /\ pc = "render"
    /\ RisingNow
    /\ startGlow
    /\ startPos16 > 16
    /\ pos16 = 0

\* C18: once the bar is drawn, length < NUM_LEDS, the position is in range,
\* the buffer has exactly the pixels 0 .. NUM_LEDS - 1, no pixel has been
\* written twice and length + 1 pixels have been written.
C18_NoDoubleWrite ==
    pc \in {"advance", "show", "delay"} =>
        /\ length < NUM_LEDS
        /\ 0 <= pos16 /\ pos16 < NUM_LEDS * 16
        /\ DOMAIN leds = Pixels
        /\ \A p \in Pixels : Len(leds[p]) <= 1
        /\ BufferTerms(leds, NUM_LEDS) = length + 1

\* the longest bar drawn across the end of the strip: pixels 11, 0 .. 6
C18_Witness ==
    /\ pc = "advance"
    /\ length = 7
    /\ pos16 = StripLen16 - 1
    /\ Len(leds[11]) = 1
    /\ Len(leds[6]) = 1
    /\ leds[7] = Black

C20_IdleFrameEffect ==
    [][((pc = "sample" /\ selected' = -1) \/ (pc # "sample" /\ selected = -1)) =>
          /\ length' = length
          /\ hue' = hue
          /\ mp3Calls' = mp3Calls
          /\ mp3Track' = mp3Track
          /\ frameCalls' = 0]_vars

\* the afterglow of target 5, one idle frame after release
C20_Witness ==
    /\ pc = "delay"
    /\ selected = -1
    /\ lit
    /\ length = 7
    /\ hue = 160
    /\ brightness = 204
    /\ frameCalls = 0

====
